---------------------------- MODULE Spec2Model ----------------------------
(***************************************************************************)
(* A model of ignr (src/src/main.rs): the template resolver, the template  *)
(* compositor (TemplateManager::merge_templates) and the managed-section   *)
(* merge performed by handle_generate.                                     *)
(*                                                                         *)
(* Text is modelled by TLA+ strings, byte offsets are 0-based as in Rust,  *)
(* and an Option<T> is a sequence of length 0 (None) or 1 (Some).          *)
(***************************************************************************)
EXTENDS Integers, Sequences, FiniteSets, TLC

VARIABLES
    in_git,         \* a .git entry exists in dir or one of its ancestors
    template_dir,   \* config.templates.template_dir: Option<directory>
    data_dir,       \* <data_dir>/templates: file stem -> file text
    prefer_local,   \* config.templates.prefer_local
    always_include, \* config.templates.always_include
    detected,       \* the set the last run's `templates` started from
    gitignore,      \* <dir>/.gitignore: Option<Text>
    existing,       \* .gitignore as the last run found it: Option<Text>
    cmd,            \* the GenerateCommand (and common flags) of the last run
    template_list,  \* the tag list handed to merge_templates by the last run
    sections,       \* merge_templates: the sections it built
    content,        \* merge_templates: the text it returned
    warnings,       \* merge_templates: one entry per warn!()
    full_content,   \* header + blank line + content of the last run
    outcome,        \* how the last run ended
    runs,           \* number of runs so far
    fs_case_sensitive, \* the file system tells "Rust" from "rust"
    lookup,         \* the name last handed to get_template
    resolved,       \* what that get_template call returned: Option<Text>
    listed,         \* what the last list_available call returned: Option<Vec>
    tree,           \* the entries below the scanned directory
    root_ok,        \* the scanned directory itself can be opened
    detection,      \* config.detection
    target_os,      \* the target_os the program was built for
    scan_depth,     \* the depth argument of a scan made on its own
    visited,        \* the walker's items in the order of the last scan
    detect_out,     \* what the last detect_technologies call returned
    detect_prev,    \* the call before it: its walk order and what it returned
    origin,         \* history: the .gitignore before the first run
    history,        \* history: "none", "replaced" (every write so far was made
                    \* without --append) or "mixed"
    wrote           \* history: the fs::write calls of the last run

vars == <<in_git, template_dir, data_dir, prefer_local, always_include,
          detected, gitignore, existing, cmd, template_list, sections,
          content, warnings, full_content, outcome, runs,
          fs_case_sensitive, lookup, resolved, listed,
          tree, root_ok, detection, target_os, scan_depth, visited,
          detect_out, detect_prev, origin, history, wrote>>

historyVars == <<origin, history, wrote>>

detectVars == <<tree, root_ok, detection, target_os, scan_depth, visited,
                detect_out, detect_prev>>

resolveVars == <<fs_case_sensitive, lookup, resolved, listed>>

---------------------------------------------------------------------------
(* Option<T> *)

None == <<>>
Some(x) == <<x>>
IsSome(o) == o # <<>>
Unwrap(o) == o[1]

---------------------------------------------------------------------------
(* str primitives *)

\* &s[from..to]
Slice(s, from, to) == SubSeq(s, from + 1, to)

\* &s[from..]
SliceFrom(s, from) == SubSeq(s, from + 1, Len(s))

\* s.starts_with(pat)
StartsWith(s, pat) == Len(pat) <= Len(s) /\ SubSeq(s, 1, Len(pat)) = pat

\* the offsets at which pat occurs in s
Occurrences(s, pat) ==
    {i \in 0..(Len(s) - Len(pat)) : Slice(s, i, i + Len(pat)) = pat}

\* s.find(pat): the offset of the first occurrence
Find(s, pat) ==
    LET hits == Occurrences(s, pat)
    IN  IF hits = {} THEN None
        ELSE Some(CHOOSE i \in hits : \A j \in hits : i <= j)

\* char::is_whitespace, over the characters the model uses
WhiteSpace == {" ", "\t", "\n", "\r", "\f"}

RECURSIVE TrimStart(_)
TrimStart(s) ==
    IF s # "" /\ SubSeq(s, 1, 1) \in WhiteSpace
    THEN TrimStart(SliceFrom(s, 1))
    ELSE s

RECURSIVE TrimEnd(_)
TrimEnd(s) ==
    IF s # "" /\ SubSeq(s, Len(s), Len(s)) \in WhiteSpace
    THEN TrimEnd(Slice(s, 0, Len(s) - 1))
    ELSE s

\* str::trim
Trim(s) == TrimEnd(TrimStart(s))

\* a line of str::lines: its "\n" is gone, and a "\r" right before it too
StripCR(s) ==
    IF s # "" /\ SubSeq(s, Len(s), Len(s)) = "\r"
    THEN Slice(s, 0, Len(s) - 1)
    ELSE s

\* str::lines
RECURSIVE Lines(_)
Lines(s) ==
    IF s = "" THEN <<>>
    ELSE LET nl == Find(s, "\n")
         IN  IF IsSome(nl)
             THEN <<StripCR(Slice(s, 0, Unwrap(nl)))>>
                      \o Lines(SliceFrom(s, Unwrap(nl) + 1))
             ELSE <<s>>

UpperLetters == "ABCDEFGHIJKLMNOPQRSTUVWXYZ"
LowerLetters == "abcdefghijklmnopqrstuvwxyz"

\* char::to_lowercase on the ASCII letters
LowerTable ==
    [c \in {SubSeq(UpperLetters, i, i) : i \in 1..Len(UpperLetters)} |->
        LET i == CHOOSE j \in 1..Len(UpperLetters) : SubSeq(UpperLetters, j, j) = c
        IN  SubSeq(LowerLetters, i, i)]

LowerChar(c) == IF c \in DOMAIN LowerTable THEN LowerTable[c] ELSE c

\* str::to_lowercase
RECURSIVE ToLowercase(_)
ToLowercase(s) ==
    IF s = "" THEN ""
    ELSE LowerChar(SubSeq(s, 1, 1)) \o ToLowercase(SliceFrom(s, 1))

\* [String]::join(sep)
RECURSIVE Join(_, _)
Join(items, sep) ==
    IF items = <<>> THEN ""
    ELSE IF Len(items) = 1 THEN items[1]
    ELSE items[1] \o sep \o Join(Tail(items), sep)

\* BTreeSet<String>::into_iter().collect(): the strings in ascending order.
\* The model's tags are ASCII, where String's byte order is the order of the
\* position of each character in Alphabet.
Alphabet == " #(),-.0123456789:=@ABCDEFGHIJKLMNOPQRSTUVWXYZ_abcdefghijklmnopqrstuvwxyz"

RankTable ==
    [c \in {SubSeq(Alphabet, i, i) : i \in 1..Len(Alphabet)} |->
        CHOOSE j \in 1..Len(Alphabet) : SubSeq(Alphabet, j, j) = c]

CharRank(c) == IF c \in DOMAIN RankTable THEN RankTable[c] ELSE 0

RECURSIVE StrLess(_, _)
StrLess(a, b) ==
    IF b = "" THEN FALSE
    ELSE IF a = "" THEN TRUE
    ELSE LET ra == CharRank(SubSeq(a, 1, 1))
             rb == CharRank(SubSeq(b, 1, 1))
         IN  IF ra # rb THEN ra < rb
             ELSE StrLess(SliceFrom(a, 1), SliceFrom(b, 1))

RECURSIVE Sorted(_)
Sorted(set) ==
    IF set = {} THEN <<>>
    ELSE LET least == CHOOSE x \in set : \A y \in set \ {x} : StrLess(x, y)
         IN  <<least>> \o Sorted(set \ {least})

---------------------------------------------------------------------------
(* Template sources *)

\* EMBEDDED_TEMPLATES: the compiled-in (name, content) table.  Each content is
\* include_str! of a template file, opaque multi-line text to this program;
\* the model gives every entry one pattern line of its own.
EmbeddedNames ==
    <<"rust", "python", "node", "go", "java", "csharp", "cpp", "ruby",
      "swift", "kotlin", "php", "scala", "elixir", "haskell", "zig", "dart",
      "terraform", "ansible", "docker", "vscode", "intellij", "vim", "emacs",
      "linux", "macos", "windows">>

EMBEDDED_TEMPLATES ==
    [i \in 1..Len(EmbeddedNames) |->
        <<EmbeddedNames[i], "." \o EmbeddedNames[i] \o "/\n">>]

\* fs::read_to_string(dir.join(format!("{name}.gitignore"))).ok(), a directory
\* being the function from the stems of its *.gitignore files to their text
ReadTemplateFile(dir, name) ==
    LET hits == {stem \in DOMAIN dir :
                    IF fs_case_sensitive THEN stem = name
                    ELSE ToLowercase(stem) = ToLowercase(name)}
    IN  IF hits = {} THEN None ELSE Some(dir[CHOOSE stem \in hits : TRUE])

load_from_custom_dir(name) ==
    IF IsSome(template_dir) THEN ReadTemplateFile(Unwrap(template_dir), name)
    ELSE None

load_from_data_dir(name) == ReadTemplateFile(data_dir, name)

\* the loop over EMBEDDED_TEMPLATES in get_template
load_embedded(name_lower) ==
    LET hits == {i \in 1..Len(EMBEDDED_TEMPLATES) :
                    ToLowercase(EMBEDDED_TEMPLATES[i][1]) = name_lower}
    IN  IF hits = {} THEN None
        ELSE Some(EMBEDDED_TEMPLATES[CHOOSE i \in hits :
                                        \A j \in hits : i <= j][2])

\* a plausible slip: the custom directory is consulted first whatever the flag
get_template_custom_first(name) ==
    LET name_lower == ToLowercase(name)
        custom == load_from_custom_dir(name_lower)
        data == load_from_data_dir(name_lower)
        embedded == load_embedded(name_lower)
    IN  IF IsSome(custom) THEN custom
        ELSE IF IsSome(data) THEN data
        ELSE embedded

get_template(name) ==
    LET name_lower == ToLowercase(name)
        custom == load_from_custom_dir(name_lower)
        data == load_from_data_dir(name_lower)
        embedded == load_embedded(name_lower)
    IN  IF prefer_local /\ IsSome(custom) THEN custom
        ELSE IF IsSome(data) THEN data
        ELSE IF IsSome(embedded) THEN embedded
        ELSE IF ~prefer_local /\ IsSome(custom) THEN custom
        ELSE None

\* a plausible slip: the custom directory is listed only when it is preferred
list_available_preferred ==
    Sorted({EMBEDDED_TEMPLATES[i][1] : i \in 1..Len(EMBEDDED_TEMPLATES)}
           \cup (IF IsSome(template_dir) /\ prefer_local
                 THEN DOMAIN Unwrap(template_dir) ELSE {})
           \cup DOMAIN data_dir)

\* TemplateManager::list_available: a BTreeSet of the embedded names and of
\* the stems of the *.gitignore files of both directories, in its order
list_available ==
    Sorted({EMBEDDED_TEMPLATES[i][1] : i \in 1..Len(EMBEDDED_TEMPLATES)}
           \cup (IF IsSome(template_dir) THEN DOMAIN Unwrap(template_dir)
                 ELSE {})
           \cup DOMAIN data_dir)

---------------------------------------------------------------------------
(* TemplateManager::merge_templates *)

\* a plausible slip: the dedup set is consulted with the untrimmed line
IsNewLineUntrimmed(line, lines) ==
    Trim(line) # "" /\ line \notin lines

\* !trimmed.is_empty() && !lines.contains(trimmed)
IsNewLine(line, lines) ==
    Trim(line) # "" /\ Trim(line) \notin lines

\* a plausible slip: the dedup set is not handed on to the next template
LinesAfterForgotten(before, after) == before

\* the dedup set a template's scan leaves to the templates after it
LinesAfter(before, after) == after

\* a plausible slip: every resolved template gets a section
KeepSectionAlways(section_lines) == TRUE

\* !section_lines.is_empty()
KeepSection(section_lines) == section_lines # <<>>

\* a plausible slip: a missing template discards what was collected so far
OnMissingReset(secs, template_name) == <<>>

\* the else branch of `if let Some(content)`: warn!() and go on
OnMissing(secs, template_name) == secs

\* the inner loop: `for line in content.lines()`
RECURSIVE ScanLines(_, _, _)
ScanLines(rest, lines, section_lines) ==
    IF rest = <<>> THEN [lines |-> lines, section_lines |-> section_lines]
    ELSE LET line == Head(rest)
         IN  IF IsNewLine(line, lines)
             THEN ScanLines(Tail(rest), lines \cup {Trim(line)},
                            Append(section_lines, line))
             ELSE ScanLines(Tail(rest), lines, section_lines)

\* the outer loop: `for template_name in templates`
RECURSIVE CollectSections(_, _, _, _)
CollectSections(templates, lines, secs, warned) ==
    IF templates = <<>> THEN [sections |-> secs, warnings |-> warned]
    ELSE LET template_name == Head(templates)
             found == get_template(template_name)
         IN  IF IsSome(found)
             THEN LET scan == ScanLines(Lines(Unwrap(found)), lines, <<>>)
                  IN  CollectSections(
                          Tail(templates),
                          LinesAfter(lines, scan.lines),
                          IF KeepSection(scan.section_lines)
                          THEN Append(secs, <<template_name, scan.section_lines>>)
                          ELSE secs,
                          warned)
             ELSE CollectSections(Tail(templates), lines,
                                  OnMissing(secs, template_name),
                                  Append(warned, template_name))

\* a plausible slip: the trimmed form of a line is rendered
RECURSIVE PushLinesTrimmed(_)
PushLinesTrimmed(section_lines) ==
    IF section_lines = <<>> THEN ""
    ELSE Trim(Head(section_lines)) \o "\n"
             \o PushLinesTrimmed(Tail(section_lines))

\* `for line in section_lines { push_str(line); push('\n') }`
RECURSIVE PushLines(_)
PushLines(section_lines) ==
    IF section_lines = <<>> THEN ""
    ELSE Head(section_lines) \o "\n" \o PushLines(Tail(section_lines))

\* the rendering loop: `for (name, section_lines) in sections`
RECURSIVE Render(_, _)
Render(secs, output) ==
    IF secs = <<>> THEN output
    ELSE LET name == Head(secs)[1]
             section_lines == Head(secs)[2]
             sep == IF output # "" THEN "\n" ELSE ""
         IN  Render(Tail(secs),
                    output \o sep \o "# === " \o name \o " ===\n"
                           \o PushLines(section_lines))

merge_templates(templates) ==
    LET c == CollectSections(templates, {}, <<>>, <<>>)
    IN  [sections |-> c.sections,
         warnings |-> c.warnings,
         output   |-> Render(c.sections, "")]

---------------------------------------------------------------------------
(* detect_technologies *)

Min(a, b) == IF a <= b THEN a ELSE b

\* Path::file_name: the last component of the path
FileName(path) ==
    LET slashes == Occurrences(path, "/")
    IN  IF slashes = {} THEN path
        ELSE SliceFrom(path, (CHOOSE i \in slashes : \A j \in slashes : j <= i) + 1)

\* Path::extension: what follows the last dot of the file name, a leading dot
\* not counting
Extension(path) ==
    LET name == FileName(path)
        dots == Occurrences(name, ".") \ {0}
    IN  IF dots = {} THEN None
        ELSE Some(SliceFrom(name, (CHOOSE i \in dots : \A j \in dots : j <= i) + 1))

\* `match file_name`: detection by manifest file
ManifestTags(file_name, path) ==
    IF file_name = "Cargo.toml" THEN {"rust"}
    ELSE IF file_name = "package.json" THEN {"node"}
    ELSE IF file_name \in {"requirements.txt", "pyproject.toml", "setup.py",
                           "Pipfile", "uv.lock"} THEN {"python"}
    ELSE IF file_name \in {"go.mod", "go.sum"} THEN {"go"}
    ELSE IF file_name \in {"pom.xml", "build.gradle"} THEN {"java"}
    ELSE IF file_name = "build.gradle.kts"
         THEN {"java"} \cup (IF Occurrences(path, "kotlin") # {}
                             THEN {"kotlin"} ELSE {})
    ELSE IF file_name \in {"CMakeLists.txt", "Makefile", "configure.ac"}
         THEN {"cpp"}
    ELSE IF file_name \in {"Gemfile", "Rakefile"} THEN {"ruby"}
    ELSE IF file_name = "Package.swift" THEN {"swift"}
    ELSE IF file_name = "composer.json" THEN {"php"}
    ELSE IF file_name = "build.sbt" THEN {"scala"}
    ELSE IF file_name = "mix.exs" THEN {"elixir"}
    ELSE IF file_name \in {"stack.yaml", "cabal.project"} THEN {"haskell"}
    ELSE IF file_name = "build.zig" THEN {"zig"}
    ELSE IF file_name = "pubspec.yaml" THEN {"dart"}
    ELSE IF file_name \in {"main.tf", "terraform.tf"} THEN {"terraform"}
    ELSE IF file_name \in {"playbook.yml", "ansible.cfg"} THEN {"ansible"}
    ELSE IF file_name \in {"Dockerfile", "docker-compose.yml",
                           "docker-compose.yaml"} THEN {"docker"}
    ELSE {}

\* `match ext`: detection by file extension
ExtensionTags(ext) ==
    IF ext = "rs" THEN {"rust"}
    ELSE IF ext \in {"py", "pyw", "pyi"} THEN {"python"}
    ELSE IF ext \in {"js", "jsx", "ts", "tsx", "mjs", "cjs"} THEN {"node"}
    ELSE IF ext = "go" THEN {"go"}
    ELSE IF ext = "java" THEN {"java"}
    ELSE IF ext \in {"cs", "fs", "vb"} THEN {"csharp"}
    ELSE IF ext \in {"c", "cpp", "cc", "cxx", "h", "hpp", "hxx"} THEN {"cpp"}
    ELSE IF ext = "rb" THEN {"ruby"}
    ELSE IF ext = "swift" THEN {"swift"}
    ELSE IF ext \in {"kt", "kts"} THEN {"kotlin"}
    ELSE IF ext = "php" THEN {"php"}
    ELSE IF ext \in {"scala", "sc"} THEN {"scala"}
    ELSE IF ext \in {"ex", "exs"} THEN {"elixir"}
    ELSE IF ext \in {"hs", "lhs"} THEN {"haskell"}
    ELSE IF ext = "zig" THEN {"zig"}
    ELSE IF ext = "dart" THEN {"dart"}
    ELSE IF ext \in {"tf", "tfvars"} THEN {"terraform"}
    ELSE IF ext \in {"csproj", "sln", "fsproj"} THEN {"csharp"}
    ELSE {}

\* detection of IDE/editor directories
IdeTags(file_name) ==
    IF file_name = ".vscode" THEN {"vscode"}
    ELSE IF file_name = ".idea" THEN {"intellij"}
    ELSE IF file_name \in {".vim", ".nvim"} THEN {"vim"}
    ELSE IF file_name = ".emacs.d" THEN {"emacs"}
    ELSE {}

\* the tags one visited entry inserts
EntryTags(entry, config) ==
    ManifestTags(FileName(entry.path), entry.path)
        \cup (IF IsSome(Extension(entry.path))
              THEN ExtensionTags(Unwrap(Extension(entry.path))) ELSE {})
        \cup (IF config.detect_ide /\ entry.is_dir
              THEN IdeTags(FileName(entry.path)) ELSE {})

\* a plausible slip: a hit replaces what was detected before
InsertTagsOverwriting(acc, tags) == IF tags = {} THEN acc ELSE tags

\* detected.insert(..)
InsertTags(acc, tags) == acc \cup tags

\* a plausible slip: the OS tag is emitted whatever detect_os says
os_tags_always(config) ==
    (IF target_os = "linux" THEN {"linux"} ELSE {})
        \cup (IF target_os = "macos" THEN {"macos"} ELSE {})
        \cup (IF target_os = "windows" THEN {"windows"} ELSE {})

\* `if config.detect_os`, one insert per #[cfg(target_os = ..)]
os_tags(config) ==
    IF config.detect_os
    THEN (IF target_os = "linux" THEN {"linux"} ELSE {})
            \cup (IF target_os = "macos" THEN {"macos"} ELSE {})
            \cup (IF target_os = "windows" THEN {"windows"} ELSE {})
    ELSE {}

\* `for entry in walker.flatten()`: flatten drops every Err the walker yields
RECURSIVE ScanEntries(_, _, _)
ScanEntries(items, config, acc) ==
    IF items = <<>> THEN acc
    ELSE IF Head(items).err THEN ScanEntries(Tail(items), config, acc)
    ELSE ScanEntries(Tail(items), config,
                     InsertTags(acc, EntryTags(Head(items), config)))

\* detect_technologies, on the items the walker yields: its one return is
\* Ok(detected)
detect_technologies(items, config) ==
    [ok |-> TRUE, tags |-> ScanEntries(items, config, {}) \cup os_tags(config)]

\* a readable file the ignore rules do not exclude
File(path, depth) ==
    [path |-> path, is_dir |-> FALSE, depth |-> depth,
     ignored |-> FALSE, err |-> FALSE]

\* the scanned directory as the walker yields it, and the Err it yields for
\* a directory it cannot open
RootEntry ==
    [path |-> "/work/proj", is_dir |-> TRUE, depth |-> 0,
     ignored |-> FALSE, err |-> FALSE]
RootError ==
    [path |-> "/work/proj", is_dir |-> TRUE, depth |-> 0,
     ignored |-> FALSE, err |-> TRUE]

\* WalkBuilder::new(dir).max_depth(Some(depth.min(config.max_depth)))
\*     .hidden(false).git_ignore(true).build(): the items of one walk
WalkItems(depth, config) ==
    IF root_ok
    THEN {RootEntry}
            \cup {e \in tree : e.depth <= Min(depth, config.max_depth)
                                 /\ ~e.ignored}
    ELSE {RootError}

\* the orders a walk can yield its items in: the root first
WalkOrders(depth, config) ==
    LET items == WalkItems(depth, config)
    IN  {order \in [1..Cardinality(items) -> items] :
            /\ order[1].depth = 0
            /\ \A e \in items : \E i \in 1..Cardinality(items) : order[i] = e}

\* DetectionConfig::default
DefaultMaxDepth == 10
DefaultDetection ==
    [max_depth |-> DefaultMaxDepth, detect_os |-> TRUE, detect_ide |-> TRUE]

\* no scan of its own has been made
DetectorIdle ==
    /\ tree = {}
    /\ root_ok = TRUE
    /\ detection = DefaultDetection
    /\ target_os = "linux"
    /\ scan_depth = DefaultMaxDepth
    /\ visited = <<>>
    /\ detect_out = None
    /\ detect_prev = None
    /\ origin = None
    /\ history = "none"
    /\ wrote = 0

---------------------------------------------------------------------------
(* handle_generate *)

\* the literal handle_generate searches an existing .gitignore for
HeaderPrefix == "# ---- ignr (detected:"

\* format!("# ---- ignr (detected: {}) @ {} ----\n", detected_str, date)
Header(tags, date) ==
    "# ---- ignr (detected: " \o Join(tags, ",") \o ") @ " \o date \o " ----\n"

\* format!("{header}\n{content}")
FullContent(tags, date, text) == Header(tags, date) \o "\n" \o text

\* a plausible slip: the boundary keeps the newline that precedes it
SectionEndAtNewline(text, start) ==
    LET after_start == SliceFrom(text, start)
        pos == Find(after_start, "\n# ----")
    IN  IF IsSome(pos) THEN start + Unwrap(pos) ELSE Len(text)

\* `end`: after_start.find("\n# ----").filter(..).map(|pos| start + pos + 1)
\*            .unwrap_or(existing.len())
SectionEnd(text, start) ==
    LET after_start == SliceFrom(text, start)
        pos == Find(after_start, "\n# ----")
        kept == IF IsSome(pos)
                   /\ ~StartsWith(SliceFrom(after_start, Unwrap(pos) + 1),
                                  "--- ignr")
                THEN pos ELSE None
    IN  IF IsSome(kept) THEN start + Unwrap(kept) + 1 ELSE Len(text)

\* a plausible slip: the block is glued to the existing text
ConcatGlued(text, block) == text \o block

\* format!("{existing}\n{full_content}")
Concat(text, block) == text \o "\n" \o block

\* a plausible slip: the managed section is never looked for
ReplaceManagedSectionBlind(text, block) == Concat(text, block)

\* the `if let Some(start) = existing.find(..)` of the replace branch
ReplaceManagedSection(text, block) ==
    LET start == Find(text, HeaderPrefix)
    IN  IF IsSome(start)
        THEN LET before == Slice(text, 0, Unwrap(start))
                 end == SectionEnd(text, Unwrap(start))
                 after == IF end < Len(text) THEN SliceFrom(text, end) ELSE ""
             IN  before \o block \o after
        ELSE Concat(text, block)

\* a plausible slip: --append is ignored
TakesAppendBranchNever(append, file) == FALSE

\* cmd.append && gitignore_path.exists()
TakesAppendBranch(append, file) == append /\ IsSome(file)

\* final_content
FinalContent(append, file, block) ==
    IF TakesAppendBranch(append, file) THEN Concat(Unwrap(file), block)
    ELSE IF IsSome(file) THEN ReplaceManagedSection(Unwrap(file), block)
    ELSE block

\* the tags of `for t in list { templates.insert(t.to_lowercase()) }`
Lowered(list) == {ToLowercase(list[i]) : i \in 1..Len(list)}

\* the BTreeSet handle_generate collects: detection, --add, always_include
CollectTemplates(c, found) ==
    (IF c.no_detect THEN {} ELSE found)
        \cup Lowered(c.add) \cup Lowered(always_include)

\* a plausible slip: a run that ends early leaves an empty file behind
EndsEarlyTouching(c, how) ==
    /\ outcome' = how
    /\ template_list' = <<>>
    /\ sections' = <<>>
    /\ content' = ""
    /\ warnings' = <<>>
    /\ full_content' = ""
    /\ wrote' = 0
    /\ gitignore' = IF IsSome(gitignore) THEN gitignore ELSE Some("")
    /\ UNCHANGED history

\* a run that ends before merge_templates is called
EndsEarly(c, how) ==
    /\ outcome' = how
    /\ template_list' = <<>>
    /\ sections' = <<>>
    /\ content' = ""
    /\ warnings' = <<>>
    /\ full_content' = ""
    /\ wrote' = 0
    /\ UNCHANGED gitignore
    /\ UNCHANGED history

\* `templates` as first bound: BTreeSet::new() under --no-detect, else what
\* detect_technologies returned
InitialTemplates(c, out) == IF c.no_detect THEN {} ELSE out.tags

\* the runs that wrote so far, after one more: all without --append, or not
HistoryAfter(append) ==
    IF append THEN "mixed"
    ELSE IF history = "none" THEN "replaced" ELSE history

HandleGenerate(c, date) ==
    /\ cmd' = c
    /\ existing' = gitignore
    /\ runs' = runs + 1
    /\ UNCHANGED <<in_git, template_dir, data_dir, prefer_local,
                   always_include>>
    /\ UNCHANGED detectVars
    /\ UNCHANGED origin
    /\ UNCHANGED resolveVars
    /\ IF ~c.force /\ ~in_git
       THEN EndsEarly(c, "not_in_git") /\ detected' = {}
       ELSE \E order \in WalkOrders(c.depth, detection) :
        LET out == detect_technologies(order, detection)
            templates == CollectTemplates(c, out.tags)
        IN  /\ detected' = InitialTemplates(c, out)
            /\ IF ~c.no_detect /\ ~out.ok THEN EndsEarly(c, "detect_failed")
               ELSE IF templates = {} THEN EndsEarly(c, "no_templates")
               ELSE LET list == Sorted(templates)
                        merged == merge_templates(list)
                        block == FullContent(list, date, merged.output)
                    IN  /\ template_list' = list
                        /\ sections' = merged.sections
                        /\ content' = merged.output
                        /\ warnings' = merged.warnings
                        /\ full_content' = block
                        /\ IF c.print
                           THEN /\ outcome' = "printed"
                                /\ wrote' = 0
                                /\ UNCHANGED <<gitignore, history>>
                           ELSE IF c.dry_run
                           THEN /\ outcome' = "dry_run"
                                /\ wrote' = 0
                                /\ UNCHANGED <<gitignore, history>>
                           ELSE /\ outcome' = "written"
                                /\ wrote' = 1
                                /\ history' = HistoryAfter(c.append)
                                /\ gitignore' =
                                     Some(FinalContent(c.append, gitignore, block))

---------------------------------------------------------------------------
(* The generate pipeline: runs of `ignr generate` on one directory *)

MaxRuns == 2

\* Utc::now().format("%Y-%m-%d") of a run
Dates == {"2024-05-02"}

Command(add, append, no_detect, force, print, dry_run) ==
    [add |-> add, append |-> append, no_detect |-> no_detect,
     depth |-> DefaultMaxDepth, force |-> force, print |-> print,
     dry_run |-> dry_run]

AddLists == {<<>>, <<"node">>, <<"Nope">>}

Commands ==
    {Command(add, append, no_detect, TRUE, FALSE, FALSE) :
        add \in AddLists, append \in BOOLEAN, no_detect \in BOOLEAN}
    \cup {Command(<<"node">>, FALSE, FALSE, FALSE, FALSE, FALSE),
          Command(<<"node">>, FALSE, FALSE, TRUE, TRUE, FALSE),
          Command(<<"node">>, FALSE, FALSE, TRUE, FALSE, TRUE),
          Command(<<"My Tag", "RUST">>, FALSE, FALSE, TRUE, TRUE, FALSE)}

NoCommand == Command(<<>>, FALSE, FALSE, FALSE, FALSE, FALSE)

\* synced templates: one plain, one with a delimiter-style comment line
SyncedTemplates ==
    [stem \in {"rust", "node"} |->
        IF stem = "rust" THEN "target/\n"
        ELSE "node_modules/\n# ---- logs ----\n*.log\n"]

\* a block an earlier run of the program wrote
OldBlock ==
    FullContent(<<"rust">>, "2024-04-01", "# === rust ===\ntarget/\n")

UserPrefixes == {"", "before\n"}
UserSuffixes == {"", "\nafter", "# ---- mine ----\nlocal.cfg\n"}

InitialFiles ==
    {None, Some(""), Some("before\n"), Some("notes")}
    \cup {Some(p \o OldBlock \o s) : p \in UserPrefixes, s \in UserSuffixes}

\* no get_template or list_available call of its own has been made, on a
\* case-sensitive file system
ResolverIdle ==
    /\ fs_case_sensitive = TRUE
    /\ lookup = ""
    /\ resolved = None
    /\ listed = None

\* the scanned directory holds a Cargo.toml, and the configuration turns
\* the OS tag off
ScannedTree == {File("/work/proj/Cargo.toml", 1)}
ScanConfig ==
    [max_depth |-> DefaultMaxDepth, detect_os |-> FALSE, detect_ide |-> TRUE]

Init ==
    /\ in_git \in BOOLEAN
    /\ template_dir = None
    /\ data_dir = SyncedTemplates
    /\ prefer_local = TRUE
    /\ always_include = <<>>
    /\ detected = {}
    /\ gitignore \in InitialFiles
    /\ origin = gitignore
    /\ history = "none"
    /\ wrote = 0
    /\ existing = None
    /\ cmd = NoCommand
    /\ template_list = <<>>
    /\ sections = <<>>
    /\ content = ""
    /\ warnings = <<>>
    /\ full_content = ""
    /\ outcome = "none"
    /\ runs = 0
    /\ ResolverIdle
    /\ tree = ScannedTree
    /\ root_ok = TRUE
    /\ detection = ScanConfig
    /\ target_os = "linux"
    /\ scan_depth = DefaultMaxDepth
    /\ visited = <<>>
    /\ detect_out = None
    /\ detect_prev = None

Generate ==
    /\ runs < MaxRuns
    /\ \E c \in Commands, date \in Dates : HandleGenerate(c, date)

Next == Generate

Spec == Init /\ [][Next]_vars

---------------------------------------------------------------------------
(* The compositor alone: merge_templates applied to any ordered tag list *)

MaxTags == 3

ComposeTags == {"a", "b", "c"}

\* template texts: shared lines, a whitespace-only text, repeats that differ
\* in surrounding whitespace only, CRLF and a last line without a newline
ComposeTexts == {"X\n", "X\nY\n", " \n\t\n", "  X \nY\nY\n", "Y\r\nZ"}

ComposeDataDirs ==
    UNION {[stems -> ComposeTexts] : stems \in SUBSET ComposeTags}

TagLists == UNION {[1..n -> ComposeTags] : n \in 0..MaxTags}

InitCompose ==
    /\ in_git = TRUE
    /\ template_dir = None
    /\ data_dir \in ComposeDataDirs
    /\ prefer_local = TRUE
    /\ always_include = <<>>
    /\ detected = {}
    /\ gitignore = None
    /\ existing = None
    /\ cmd = NoCommand
    /\ template_list = <<>>
    /\ sections = <<>>
    /\ content = ""
    /\ warnings = <<>>
    /\ full_content = ""
    /\ outcome = "none"
    /\ runs = 0
    /\ ResolverIdle
    /\ DetectorIdle

\* one call of merge_templates on the sources drawn by InitCompose
Compose ==
    \E templates \in TagLists :
        LET merged == merge_templates(templates)
        IN  /\ outcome = "none"
            /\ template_list' = templates
            /\ sections' = merged.sections
            /\ content' = merged.output
            /\ warnings' = merged.warnings
            /\ outcome' = "composed"
            /\ UNCHANGED <<in_git, template_dir, data_dir, prefer_local,
                           always_include, detected, gitignore, existing,
                           cmd, full_content, runs>>
            /\ UNCHANGED resolveVars
    /\ UNCHANGED detectVars
    /\ UNCHANGED historyVars

NextCompose == Compose

SpecCompose == InitCompose /\ [][NextCompose]_vars

---------------------------------------------------------------------------
(* Vocabulary of the compositor properties, read off the sources and the   *)
(* tag list rather than off what merge_templates built                     *)

Composed == outcome \in {"composed", "written", "printed", "dry_run"}

Resolves(tag) == IsSome(get_template(tag))
IsMissing(tag) == ~Resolves(tag)

\* the template text of the i-th tag of the list, as lines
TemplateLines(i) == Lines(Unwrap(get_template(template_list[i])))

\* the non-blank line contents of the i-th tag's template, trimmed
TrimmedOf(i) ==
    {Trim(TemplateLines(i)[k]) : k \in 1..Len(TemplateLines(i))} \ {""}

\* every line of the i-th tag's template is blank
Blank(i) == TrimmedOf(i) = {}

\* every non-blank line of the i-th tag's template is in an earlier template
Covered(i) ==
    \A t \in TrimmedOf(i) :
        \E j \in 1..(i - 1) :
            Resolves(template_list[j]) /\ t \in TrimmedOf(j)

Contributes(i) == Resolves(template_list[i]) /\ ~Blank(i) /\ ~Covered(i)

RECURSIVE ContributingNames(_)
ContributingNames(n) ==
    IF n = 0 THEN <<>>
    ELSE IF Contributes(n)
         THEN Append(ContributingNames(n - 1), template_list[n])
         ELSE ContributingNames(n - 1)

RemoveAt(list, i) == SubSeq(list, 1, i - 1) \o SubSeq(list, i + 1, Len(list))

SectionNames == [k \in 1..Len(sections) |-> sections[k][1]]

MarkerLines == {"# === " \o sections[k][1] \o " ===" : k \in 1..Len(sections)}

IsBodyLine(line) == line \notin MarkerLines /\ Trim(line) # ""

\* the lines of the rendered text that belong to a section's body
RenderedBody == SelectSeq(Lines(content), IsBodyLine)

IsEmptyLine(line) == line = ""

\* C7: dedup monotonicity - no line content (after trim) occurs twice in the
\* rendered sections of one composed block, neither in what merge_templates
\* retained nor in the text it rendered, whether the repeats come from one
\* template or from several.
C7_DedupMonotonicity ==
    Composed =>
        /\ \A i, j \in 1..Len(sections) :
             \A k \in 1..Len(sections[i][2]), l \in 1..Len(sections[j][2]) :
                <<i, k>> # <<j, l>>
                    => Trim(sections[i][2][k]) # Trim(sections[j][2][l])
        /\ \A p, q \in 1..Len(RenderedBody) :
             p # q => Trim(RenderedBody[p]) # Trim(RenderedBody[q])

\* two tags whose templates repeat a line (within one, across both, and in a
\* differently indented form) were composed into two sections
C7_Witness ==
    /\ outcome = "composed"
    /\ template_list = <<"a", "b">>
    /\ "a" \in DOMAIN data_dir /\ data_dir["a"] = "X\n"
    /\ "b" \in DOMAIN data_dir /\ data_dir["b"] = "  X \nY\nY\n"
    /\ Len(sections) = 2
    /\ Len(RenderedBody) = 2

\* C8: order-dependent survivorship - a line content is retained in the
\* section of the earliest tag of the list whose template has it and in no
\* other; with a = {X}, b = {X, Y}: [a, b] gives a = [X], b = [Y] and [b, a]
\* gives b = [X, Y] and no section for a.
C8_OrderDependentSurvivorship ==
    Composed =>
        /\ \A i \in 1..Len(template_list) :
             Resolves(template_list[i]) =>
                \A t \in TrimmedOf(i) :
                    LET first == CHOOSE j \in 1..i :
                                    /\ Resolves(template_list[j])
                                    /\ t \in TrimmedOf(j)
                                    /\ \A h \in 1..(j - 1) :
                                          ~(Resolves(template_list[h])
                                            /\ t \in TrimmedOf(h))
                    IN  \A k \in 1..Len(sections) :
                            (\E l \in 1..Len(sections[k][2]) :
                                Trim(sections[k][2][l]) = t)
                                <=> sections[k][1] = template_list[first]
        /\ ( /\ "a" \in DOMAIN data_dir /\ data_dir["a"] = "X\n"
             /\ "b" \in DOMAIN data_dir /\ data_dir["b"] = "X\nY\n" )
           => /\ template_list = <<"a", "b">>
                    => sections = << <<"a", <<"X">> >>, <<"b", <<"Y">> >> >>
              /\ template_list = <<"b", "a">>
                    => sections = << <<"b", <<"X", "Y">> >> >>

\* the reversed order was composed: b took both lines and a has vanished
C8_Witness ==
    /\ outcome = "composed"
    /\ template_list = <<"b", "a">>
    /\ "a" \in DOMAIN data_dir /\ data_dir["a"] = "X\n"
    /\ "b" \in DOMAIN data_dir /\ data_dir["b"] = "X\nY\n"
    /\ SectionNames = <<"b">>

\* C9: a missing template never aborts composition - the sections and the
\* text are those of the same list with the unresolvable tags removed, there
\* is one diagnostic per missing tag, and with every tag missing the text is
\* empty.
C9_MissingTemplateDoesNotAbort ==
    Composed =>
        LET known == SelectSeq(template_list, Resolves)
            clean == merge_templates(known)
        IN  /\ sections = clean.sections
            /\ content = clean.output
            /\ warnings = SelectSeq(template_list, IsMissing)
            /\ (known = <<>> => content = "" /\ sections = <<>>)

\* a missing tag stood between two tags that each got a section
C9_Witness ==
    /\ outcome = "composed"
    /\ Len(template_list) = 3
    /\ Resolves(template_list[1])
    /\ IsMissing(template_list[2])
    /\ Resolves(template_list[3])
    /\ Len(sections) = 2
    /\ Len(warnings) = 1

\* C10: a tag whose template is all-whitespace, or whose non-blank lines all
\* appeared (after trim) in the template of an earlier tag, contributes
\* nothing - the sections are exactly those of the other tags, none is empty,
\* the text has one marker line per section, one blank line between two
\* sections and none elsewhere, and is the text composed without that tag.
C10_SilentTagContributesNothing ==
    Composed =>
        /\ SectionNames = ContributingNames(Len(template_list))
        /\ \A k \in 1..Len(sections) : sections[k][2] # <<>>
        /\ Cardinality(Occurrences(content, "# === ")) = Len(sections)
        /\ Len(SelectSeq(Lines(content), IsEmptyLine))
              = IF sections = <<>> THEN 0 ELSE Len(sections) - 1
        /\ \A i \in 1..Len(template_list) :
              (Resolves(template_list[i]) /\ (Blank(i) \/ Covered(i)))
                  => content = merge_templates(RemoveAt(template_list, i)).output

\* a silent tag (blank, or wholly repeated) stood between two tags that each
\* got a section
C10_Witness ==
    /\ outcome = "composed"
    /\ Len(template_list) = 3
    /\ Contributes(1)
    /\ Resolves(template_list[2]) /\ Covered(2)
    /\ Contributes(3)
    /\ \E i \in 1..3 : Resolves(template_list[i]) /\ Blank(i)

---------------------------------------------------------------------------
(* Vocabulary of the merge properties *)

Written == outcome = "written"
ReplaceRun == Written /\ ~cmd.append
AppendRun == Written /\ cmd.append

\* the file the last run found, and the file it left
Old == Unwrap(existing)
New == Unwrap(gitignore)

HasHeader(text) == IsSome(Find(text, HeaderPrefix))

StartsWithHeader(line) == StartsWith(line, HeaderPrefix)

\* the number of lines of a file that begin with the managed header prefix
HeaderCount(file) ==
    IF IsSome(file) THEN Len(SelectSeq(Lines(Unwrap(file)), StartsWithHeader))
    ELSE 0

\* the blocks a run of the program can have written with these sources
GeneratedBlocks ==
    {FullContent(Sorted(tags), date, merge_templates(Sorted(tags)).output) :
        tags \in SUBSET {"rust", "node", "nope"} \ {{}},
        date \in Dates \cup {"2024-04-01"}}

\* the start of the first line after offset start that begins with "# ----",
\* or the end of the text when there is none
NextDelimiterLine(text, start) ==
    LET lineStarts == {j \in (start + 1)..Len(text) :
                          /\ Slice(text, j - 1, j) = "\n"
                          /\ StartsWith(SliceFrom(text, j), "# ----")}
    IN  IF lineStarts = {} THEN Len(text)
        ELSE CHOOSE j \in lineStarts : \A h \in lineStarts : j <= h

\* C1: replace preserves surrounding content - whenever the file found is
\* P + oldBlock + S, oldBlock a block the program generated and P free of
\* managed headers, a Replace run leaves exactly P + newBlock + S.
C1_ReplacePreservesSurroundings ==
    (ReplaceRun /\ IsSome(existing)) =>
        \A oldBlock \in GeneratedBlocks :
            \A at \in Occurrences(Old, oldBlock) :
                LET P == Slice(Old, 0, at)
                    S == SliceFrom(Old, at + Len(oldBlock))
                IN  ~HasHeader(P) => New = P \o full_content \o S

\* C2: in a Replace run the replaced region never ends at a line that starts
\* another managed header - what the run keeps after the new block does not
\* begin with the managed header prefix.
C2_BoundaryIsNotAManagedHeader ==
    (ReplaceRun /\ IsSome(existing) /\ HasHeader(Old)) =>
        LET start == Unwrap(Find(Old, HeaderPrefix))
        IN  ~StartsWithHeader(SliceFrom(New, start + Len(full_content)))

C4_ReplaceIsIdempotent ==
    ReplaceRun => FinalContent(FALSE, gitignore, full_content) = New

\* C5: Append never searches for a prior block - an Append run on an existing
\* file keeps that file as it is, adds the new block after it, and so raises
\* the number of managed headers by exactly one.
C5_AppendAccumulatesBlocks ==
    AppendRun =>
        /\ IsSome(existing) =>
              /\ Slice(New, 0, Len(Old)) = Old
              /\ SliceFrom(New, Len(New) - Len(full_content)) = full_content
        /\ HeaderCount(gitignore) = HeaderCount(existing) + 1

\* two Append runs on a file that held one managed block: three headers
C5_Witness ==
    /\ AppendRun
    /\ runs = 2
    /\ HeaderCount(existing) = 2
    /\ HeaderCount(gitignore) = 3

---------------------------------------------------------------------------
(* The rendered text, rebuilt from the tag list and the template texts *)

\* line k of the i-th tag's template is the first place, in list order and
\* then in template order, where its trimmed content occurs
Retained(i, k) ==
    LET t == Trim(TemplateLines(i)[k])
    IN  /\ t # ""
        /\ \A j \in 1..(i - 1) :
              ~(Resolves(template_list[j]) /\ t \in TrimmedOf(j))
        /\ \A h \in 1..(k - 1) : Trim(TemplateLines(i)[h]) # t

RECURSIVE ExpectedBody(_, _)
ExpectedBody(i, k) ==
    IF k = 0 THEN ""
    ELSE ExpectedBody(i, k - 1)
            \o (IF Retained(i, k) THEN TemplateLines(i)[k] \o "\n" ELSE "")

RECURSIVE ExpectedText(_)
ExpectedText(n) ==
    IF n = 0 THEN ""
    ELSE LET before == ExpectedText(n - 1)
         IN  IF Contributes(n)
             THEN before \o (IF before = "" THEN "" ELSE "\n")
                         \o "# === " \o template_list[n] \o " ===\n"
                         \o ExpectedBody(n, Len(TemplateLines(n)))
             ELSE before

\* C11: the rendered block is, for each non-empty section in the order of the
\* tag list, the marker line "# === <tag> ===" and then the retained lines in
\* template order and untrimmed, each ended by a newline; one blank line
\* stands between two sections and none before the first.
C11_RenderedLayout ==
    Composed =>
        /\ content = ExpectedText(Len(template_list))
        /\ ~StartsWith(content, "\n")
        /\ Occurrences(content, "\n\n\n") = {}

\* two sections in caller order (not sorted), an indented line kept as it is
C11_Witness ==
    /\ outcome = "composed"
    /\ template_list = <<"c", "b">>
    /\ "b" \in DOMAIN data_dir /\ data_dir["b"] = "  X \nY\nY\n"
    /\ "c" \in DOMAIN data_dir /\ data_dir["c"] = "Y\r\nZ"
    /\ content = "# === c ===\nY\nZ\n\n# === b ===\n  X \n"

---------------------------------------------------------------------------
(* The resolver alone: get_template and list_available on any sources *)

\* file stems of the template directories; "Mine" and "mine" differ in case
ResolveStems == {"rust", "Mine", "mine"}

ResolveTags == {"rust", "RUST", "mine", "zig", "nope"}

\* a directory whose files name their source and their stem
DirOf(source, stems) == [stem \in stems |-> source \o ":" \o stem \o "\n"]

\* a case-insensitive file system holds no two names that differ in case only
Storable(stems) ==
    fs_case_sensitive
        \/ \A x, y \in stems : ToLowercase(x) = ToLowercase(y) => x = y

InitResolve ==
    /\ fs_case_sensitive \in BOOLEAN
    /\ prefer_local \in BOOLEAN
    /\ \E stems \in SUBSET ResolveStems :
          Storable(stems) /\ data_dir = DirOf("data", stems)
    /\ \/ template_dir = None
       \/ \E stems \in SUBSET ResolveStems :
             Storable(stems) /\ template_dir = Some(DirOf("custom", stems))
    /\ in_git = TRUE
    /\ always_include = <<>>
    /\ detected = {}
    /\ gitignore = None
    /\ existing = None
    /\ cmd = NoCommand
    /\ template_list = <<>>
    /\ sections = <<>>
    /\ content = ""
    /\ warnings = <<>>
    /\ full_content = ""
    /\ outcome = "none"
    /\ runs = 0
    /\ lookup = ""
    /\ resolved = None
    /\ listed = None
    /\ DetectorIdle

composeVars ==
    <<in_git, always_include, detected, gitignore, existing, cmd,
      template_list, sections, content, warnings, full_content, outcome, runs>>

\* one call of get_template
Resolve ==
    \E tag \in ResolveTags :
        /\ lookup' = tag
        /\ resolved' = get_template(tag)
        /\ UNCHANGED <<template_dir, data_dir, prefer_local,
                       fs_case_sensitive, listed>>
        /\ UNCHANGED composeVars
        /\ UNCHANGED detectVars
        /\ UNCHANGED historyVars

\* one call of list_available
List ==
    /\ listed' = Some(list_available)
    /\ UNCHANGED <<template_dir, data_dir, prefer_local, fs_case_sensitive,
                   lookup, resolved>>
    /\ UNCHANGED composeVars
    /\ UNCHANGED detectVars
    /\ UNCHANGED historyVars

NextResolve == Resolve \/ List

SpecResolve == InitResolve /\ [][NextResolve]_vars

---------------------------------------------------------------------------
(* Vocabulary of the resolver properties *)

\* the sources in the order the claim gives for the flag
SourceOrder ==
    IF prefer_local THEN <<"custom", "data", "builtin">>
    ELSE <<"data", "builtin", "custom">>

\* what one source alone holds for a tag
SourceText(source, tag) ==
    IF source = "custom" THEN load_from_custom_dir(ToLowercase(tag))
    ELSE IF source = "data" THEN load_from_data_dir(ToLowercase(tag))
    ELSE load_embedded(ToLowercase(tag))

\* a directory holds a file whose stem is the tag, ignoring case
HoldsIgnoringCase(dir, tag) ==
    \E stem \in DOMAIN dir : ToLowercase(stem) = ToLowercase(tag)

EmbeddedNameSet == {EmbeddedNames[i] : i \in 1..Len(EmbeddedNames)}

CustomStems == IF IsSome(template_dir) THEN DOMAIN Unwrap(template_dir) ELSE {}

\* C12: resolve returns the text of the first source that has the tag, in the
\* order custom, data, built-in when prefer_local is set and data, built-in,
\* custom when it is not, and absence only when no source has the tag.
C12_FirstSourceInOrderWins ==
    lookup # "" =>
        LET having == {i \in 1..3 : IsSome(SourceText(SourceOrder[i], lookup))}
        IN  IF having = {} THEN resolved = None
            ELSE LET first == CHOOSE i \in having : \A j \in having : i <= j
                 IN  resolved = SourceText(SourceOrder[first], lookup)

\* without prefer_local the built-in text won over the custom file
C12_Witness ==
    /\ lookup = "rust"
    /\ ~prefer_local
    /\ IsSome(SourceText("custom", "rust"))
    /\ ~IsSome(SourceText("data", "rust"))
    /\ resolved = SourceText("builtin", "rust")
    /\ resolved # SourceText("custom", "rust")

\* C13: lookup is case-insensitive between the tag and the stored name - a
\* template file of either directory whose stem equals the tag ignoring case,
\* or a built-in entry whose name does, is found by resolve.
C13_LookupIgnoresCase ==
    LET stored == \/ HoldsIgnoringCase(data_dir, lookup)
                  \/ (IsSome(template_dir)
                        /\ HoldsIgnoringCase(Unwrap(template_dir), lookup))
                  \/ \E name \in EmbeddedNameSet :
                        ToLowercase(name) = ToLowercase(lookup)
    IN  (lookup # "" /\ stored) => IsSome(resolved)

\* C14: list_available returns exactly the union of the stems of the custom
\* directory, the stems of the data directory and the built-in names, each
\* once, whatever prefer_local is.
C14_ListIsUnionOfSources ==
    IsSome(listed) =>
        LET names == Unwrap(listed)
        IN  /\ {names[i] : i \in 1..Len(names)}
                  = CustomStems \cup DOMAIN data_dir \cup EmbeddedNameSet
            /\ Len(names)
                  = Cardinality(CustomStems \cup DOMAIN data_dir
                                    \cup EmbeddedNameSet)

\* listed without prefer_local: a stem only the custom directory has is there
C14_Witness ==
    /\ IsSome(listed)
    /\ ~prefer_local
    /\ "Mine" \in CustomStems
    /\ "Mine" \notin DOMAIN data_dir
    /\ \E i \in 1..Len(Unwrap(listed)) : Unwrap(listed)[i] = "Mine"

---------------------------------------------------------------------------
(* The detector alone: detect_technologies on any small tree *)

MaxEntries == 2

\* a manifest, a manifest below a "kotlin" path, an editor directory, a source
\* file, a directory that cannot be read and a file the ignore rules exclude
EntryPool ==
    {File("/work/proj/Cargo.toml", 1),
     File("/work/proj/kotlin-app/build.gradle.kts", 2),
     [path |-> "/work/proj/.vscode", is_dir |-> TRUE, depth |-> 1,
      ignored |-> FALSE, err |-> FALSE],
     File("/work/proj/src/app.py", 2),
     [path |-> "/work/proj/locked", is_dir |-> TRUE, depth |-> 1,
      ignored |-> FALSE, err |-> TRUE],
     [path |-> "/work/proj/dist/bundle.js", is_dir |-> FALSE, depth |-> 2,
      ignored |-> TRUE, err |-> FALSE]}

TargetOSes == {"linux", "macos", "windows"}

InitDetect ==
    /\ tree \in {t \in SUBSET EntryPool : Cardinality(t) <= MaxEntries}
    /\ root_ok \in BOOLEAN
    /\ detection \in [max_depth : {DefaultMaxDepth}, detect_os : BOOLEAN,
                      detect_ide : BOOLEAN]
    /\ target_os \in TargetOSes
    /\ scan_depth \in {1, DefaultMaxDepth}
    /\ visited = <<>>
    /\ detect_out = None
    /\ detect_prev = None
    /\ origin = None
    /\ history = "none"
    /\ wrote = 0
    /\ in_git = TRUE
    /\ template_dir = None
    /\ data_dir = SyncedTemplates
    /\ prefer_local = TRUE
    /\ always_include = <<>>
    /\ detected = {}
    /\ gitignore = None
    /\ existing = None
    /\ cmd = NoCommand
    /\ template_list = <<>>
    /\ sections = <<>>
    /\ content = ""
    /\ warnings = <<>>
    /\ full_content = ""
    /\ outcome = "none"
    /\ runs = 0
    /\ ResolverIdle

\* one call of detect_technologies on the unchanged tree
Detect ==
    \E order \in WalkOrders(scan_depth, detection) :
        /\ visited' = order
        /\ detect_prev' = IF IsSome(detect_out)
                          THEN Some([order |-> visited, out |-> Unwrap(detect_out)])
                          ELSE None
        /\ detect_out' = Some(detect_technologies(order, detection))
        /\ UNCHANGED <<tree, root_ok, detection, target_os, scan_depth>>
        /\ UNCHANGED <<template_dir, data_dir, prefer_local>>
        /\ UNCHANGED composeVars
        /\ UNCHANGED resolveVars
        /\ UNCHANGED historyVars

NextDetect == Detect

SpecDetect == InitDetect /\ [][NextDetect]_vars

---------------------------------------------------------------------------
(* The tags handle_generate hands to merge_templates *)

HasWhiteSpace(tag) == \E i \in 1..Len(tag) : SubSeq(tag, i, i) \in WhiteSpace

IsLowerCase(tag) == ToLowercase(tag) = tag

\* C15: every tag of the list handed to merge_templates, whether detected,
\* given with --add or taken from always_include, is lower-case and has no
\* whitespace in it, and no tag occurs twice in the list.
C15_TagsAreNormalised ==
    Composed =>
        /\ \A i \in 1..Len(template_list) :
              /\ IsLowerCase(template_list[i])
              /\ ~HasWhiteSpace(template_list[i])
        /\ \A i, j \in 1..Len(template_list) :
              i # j => template_list[i] # template_list[j]

\* what does hold of the list: lower-case, sorted, without duplicates
C15_LowerCaseAndDistinct ==
    Composed =>
        /\ \A i \in 1..Len(template_list) : IsLowerCase(template_list[i])
        /\ \A i, j \in 1..Len(template_list) :
              i < j => StrLess(template_list[i], template_list[j])

---------------------------------------------------------------------------
(* What detect_technologies returns *)

Scanned == IsSome(detect_out)
Result == Unwrap(detect_out)

OSTags == {"linux", "macos", "windows"}

\* the entries of the walk that were read
ReadEntries == {e \in WalkItems(scan_depth, detection) : ~e.err}

\* the tags the read entries and the options stand for, no order involved
ExpectedTags ==
    UNION {EntryTags(e, detection) : e \in ReadEntries} \cup os_tags(detection)

\* C16: a scan whose root directory cannot be opened returns an error to
\* the caller; a scan whose root can be opened never does, whatever
\* other entry fails: the failed entry adds no tag and the others are scanned.
C16_TraversalFailuresClassified ==
    Scanned =>
        /\ ~root_ok => ~Result.ok
        /\ root_ok => Result.ok /\ Result.tags = ExpectedTags

\* what does hold: no failure, of the root or of another entry, is ever
\* returned, and the entries that were read are all scanned
C16_NoFailureIsReturned ==
    Scanned => Result.ok /\ Result.tags = ExpectedTags

\* C17: the detected set holds exactly one of the tags linux, macos and
\* windows when detect_os is on and none of them when it is off, whatever
\* the scanned tree holds and whether or not it can be read.
C17_ExactlyOneOSTag ==
    Scanned =>
        Cardinality(Result.tags \cap OSTags)
            = (IF detection.detect_os THEN 1 ELSE 0)

\* an unreadable root, detect_os on: the OS tag is all that is detected
C17_Witness ==
    /\ Scanned
    /\ ~root_ok
    /\ detection.detect_os
    /\ target_os = "macos"
    /\ Result.tags = {"macos"}

\* C18: the detected set is a function of the set of visited entries and
\* the options: it is the same in every order of the walk, and a second
\* scan of the unchanged tree returns what the first returned.
C18_OrderIndependent ==
    Scanned =>
        /\ Result.tags = ExpectedTags
        /\ IsSome(detect_prev) => Unwrap(detect_prev).out = Result

\* two scans of one tree in different orders, three tags found
C18_Witness ==
    /\ Scanned
    /\ IsSome(detect_prev)
    /\ Unwrap(detect_prev).order # visited
    /\ Cardinality(Result.tags \ OSTags) >= 3

---------------------------------------------------------------------------
(* Runs of handle_generate and the .gitignore they leave *)

\* the text the file held before the first run: none when there was no file
OriginText == IF IsSome(origin) THEN Unwrap(origin) ELSE ""

EndedEarly ==
    outcome \in {"not_in_git", "detect_failed", "no_templates", "printed",
                 "dry_run"}

\* C19: when the file held no managed header before the first run and every
\* run that wrote since was made without --append, the file holds exactly
\* one line beginning with the managed header prefix and begins with the
\* text it held before the first run.
C19_ReplaceRunsKeepOneHeader ==
    (~HasHeader(OriginText) /\ history = "replaced") =>
        /\ IsSome(gitignore)
        /\ HeaderCount(gitignore) = 1
        /\ StartsWith(Unwrap(gitignore), OriginText)

\* two runs without --append on a file of user text: the second replaced
\* the block of the first with a different one
C19_Witness ==
    /\ origin = Some("notes")
    /\ history = "replaced"
    /\ runs = 2
    /\ ReplaceRun
    /\ HasHeader(Old)
    /\ New # Old
    /\ HeaderCount(gitignore) = 1

\* C20: a run that ends with the not-in-a-git-repository error, the
\* no-templates message, the --print output or the dry run leaves the file
\* as it was, absent if it was absent; a run writes exactly when none of
\* these applies, and then once, the merged text.
C20_OnlyAWritingRunTouchesTheFile ==
    /\ EndedEarly => gitignore = existing /\ wrote = 0
    /\ Written =>
          /\ wrote = 1
          /\ gitignore = Some(FinalContent(cmd.append, existing, full_content))
    /\ runs > 0 =>
          (Written <=> /\ cmd.force \/ in_git
                       /\ CollectTemplates(cmd, detected) # {}
                       /\ ~cmd.print
                       /\ ~cmd.dry_run)

\* a run without --force outside a repository, no file before and none after
C20_Witness ==
    /\ outcome = "not_in_git"
    /\ ~cmd.force
    /\ existing = None
    /\ gitignore = None
    /\ wrote = 0

============================================================================
